---- MODULE Spec2Model ----
(***************************************************************************)
(* Model of _validation/app.js: the game-database validator.  One run      *)
(* walks the game folders, applies the validators to each and reports.     *)
(* Text is modelled as sequences of one-character strings so that length,  *)
(* substr, lastIndexOf and the regular expressions are computed, not       *)
(* assumed.  A validator is an operator from its input to a result         *)
(* [errs, raised, ret]: the messages it pushed with validationError, in    *)
(* order, whether it threw, and its return value.                          *)
(***************************************************************************)
EXTENDS Integers, Sequences, FiniteSets, TLC

\* config       require('./config.json'): constraints and region codes
\* dirs         getDirectories(config.directory): the listing forEach walks
\* tree         the content of each listed folder, as the validators read it
\* idx, pc      the folder forEach is at and the next statement of its callback
\* currentGame  let currentGame
\* errors       let errors
\* console      the lines written with console.warn and console.info
\* exitCode     the status given to process.exit, -1 while the run goes on
\* trace        history: the validator calls made, with what each recorded
VARIABLES config, dirs, tree, idx, pc, currentGame, errors, console,
          exitCode, trace

vars == <<config, dirs, tree, idx, pc, currentGame, errors, console,
          exitCode, trace>>

(***************************************************************************)
(* Bounds of the model.                                                    *)
(***************************************************************************)
MaxDirs == 3
MaxShots == 2
MaxSaveFiles == 3
MaxIssues == 2
MaxReleases == 2
MaxTestcases == 2

(***************************************************************************)
(* Text helpers.                                                           *)
(***************************************************************************)
Rep(c, n) == [i \in 1..n |-> c]

Digits == {"0", "1", "2", "3", "4", "5", "6", "7", "8", "9"}

Letters == {"a", "b", "c", "d", "e", "f", "g", "h", "i", "j", "k", "l", "m",
            "n", "o", "p", "q", "r", "s", "t", "u", "v", "w", "x", "y", "z",
            "A", "B", "C", "D", "E", "F", "G", "H", "I", "J", "K", "L", "M",
            "N", "O", "P", "Q", "R", "S", "T", "U", "V", "W", "X", "Y", "Z"}

HexLetters == {"a", "b", "c", "d", "e", "f", "A", "B", "C", "D", "E", "F"}

DigitVal(c) ==
    CASE c = "0" -> 0 [] c = "1" -> 1 [] c = "2" -> 2 [] c = "3" -> 3
      [] c = "4" -> 4 [] c = "5" -> 5 [] c = "6" -> 6 [] c = "7" -> 7
      [] c = "8" -> 8 [] c = "9" -> 9
      [] c \in {"a", "A"} -> 10 [] c \in {"b", "B"} -> 11
      [] c \in {"c", "C"} -> 12 [] c \in {"d", "D"} -> 13
      [] c \in {"e", "E"} -> 14 [] c \in {"f", "F"} -> 15

\* String.prototype.lastIndexOf(c), 0-based, -1 when c does not occur.
lastIndexOf(s, c) ==
    LET hits == {i \in 1..Len(s) : s[i] = c}
    IN  IF hits = {} THEN -1
        ELSE (CHOOSE i \in hits : \A j \in hits : j <= i) - 1

\* String.prototype.substr(0, n): a negative length gives the empty string.
substr0(s, n) ==
    IF n <= 0 THEN <<>>
    ELSE SubSeq(s, 1, IF n < Len(s) THEN n ELSE Len(s))

startsWith(s, p) ==
    /\ Len(s) >= Len(p)
    /\ SubSeq(s, 1, Len(p)) = p

(***************************************************************************)
(* Decoded TOML values.  t is the JavaScript type of the value; s holds    *)
(* the characters of a string, n the integer part of a number, frac        *)
(* whether a number has a fractional part, a the elements of an array.     *)
(***************************************************************************)
Undefined == [t |-> "undefined", s |-> <<>>, n |-> 0, frac |-> FALSE, a |-> <<>>]

Str(s) == [t |-> "string", s |-> s, n |-> 0, frac |-> FALSE, a |-> <<>>]

Num(n) == [t |-> "number", s |-> <<>>, n |-> n, frac |-> FALSE, a |-> <<>>]

Float(n) == [t |-> "number", s |-> <<>>, n |-> n, frac |-> TRUE, a |-> <<>>]

Bool(b) == [t |-> "boolean", s |-> <<>>, n |-> IF b THEN 1 ELSE 0,
            frac |-> FALSE, a |-> <<>>]

DateObj == [t |-> "date", s |-> <<>>, n |-> 0, frac |-> FALSE, a |-> <<>>]

Arr(a) == [t |-> "array", s |-> <<>>, n |-> 0, frac |-> FALSE, a |-> a]

\* value.length: defined for strings and arrays only (-1 stands for undefined).
LengthOf(v) ==
    CASE v.t = "string" -> Len(v.s)
      [] v.t = "array" -> Len(v.a)
      [] OTHER -> -1

(***************************************************************************)
(* Results of a validator and the messages of validationError.             *)
(***************************************************************************)
Err(kind, name, i, path) == [kind |-> kind, name |-> name, idx |-> i, path |-> path]

\* A console line that carries no message.
NoError == Err("", "", 0, <<>>)

Ok == [errs |-> <<>>, raised |-> FALSE, ret |-> TRUE]

\* A call that returns false without recording anything is not in the code;
\* every false return (validateExists, validateFileExists) records first.
Failed(msg) == [errs |-> <<msg>>, raised |-> FALSE, ret |-> FALSE]

\* An uncaught JavaScript exception (TypeError and the like).
Throw == [errs |-> <<>>, raised |-> TRUE, ret |-> FALSE]

\* function validationError(err): one message appended to the error list.
validationError(msg) == [errs |-> <<msg>>, raised |-> FALSE, ret |-> TRUE]

\* Statement sequencing "r1; r2": r2 only runs when r1 did not throw.
Then(r1, r2) ==
    IF r1.raised THEN r1
    ELSE [errs |-> r1.errs \o r2.errs, raised |-> r2.raised, ret |-> r2.ret]

(***************************************************************************)
(* Images.  A file is [exists, mime, sized, width, height]: mime is what   *)
(* imageType(buffer) classifies the leading bytes as ("null" when it       *)
(* cannot), sized whether sizeOf can decode the dimensions.                *)
(***************************************************************************)
NoType == "null"

\* const type = imageType(buffer).mime; if (type !== config.type) ...
formatCheck(file, cfg, what, i) ==
    IF file.mime = NoType THEN Throw
    ELSE IF file.mime # cfg.type
         THEN validationError(Err("ImageFormat", what, i, <<>>))
         ELSE Ok

\* let dimensions = sizeOf(path); if (width !== ... || height !== ...) ...
dimensionCheck(file, cfg, what, i) ==
    IF ~file.sized THEN Throw
    ELSE IF file.width # cfg.width \/ file.height # cfg.height
         THEN validationError(Err("ImageDimensions", what, i, <<>>))
         ELSE Ok

validateImage(file, cfg, what, i) ==
    IF ~file.exists
    THEN validationError(Err("ImageNotFound", what, i, <<>>))
    ELSE Then(formatCheck(file, cfg, what, i), dimensionCheck(file, cfg, what, i))

RECURSIVE dirImagesLoop(_, _, _)
dirImagesLoop(files, cfg, i) ==
    IF i > Len(files) THEN Ok
    ELSE Then(validateImage(files[i], cfg, "screenshots", i),
              dirImagesLoop(files, cfg, i + 1))

\* dir is [exists, files]; getFiles lists files that exist.
validateDirImages(dir, cfg) ==
    IF dir.exists THEN dirImagesLoop(dir.files, cfg, 1) ELSE Ok

(***************************************************************************)
(* Field helpers of the metadata validator.                                *)
(***************************************************************************)
validateExists(struct, name) ==
    IF struct[name].t = "undefined"
    THEN Failed(Err("FieldMissing", name, 0, <<>>))
    ELSE Ok

\* tested is test(struct[name]); it only counts when the entry exists.
validateContents(struct, name, tested) ==
    LET e == validateExists(struct, name)
    IN  IF e.ret THEN Then(e, tested) ELSE e

notEmptyTest(name, field) ==
    IF field.t # "string"
    THEN validationError(Err("FieldNotString", name, 0, <<>>))
    ELSE IF field.s = <<>>
         THEN validationError(Err("FieldEmpty", name, 0, <<>>))
         ELSE Ok

validateNotEmpty(struct, name) ==
    validateContents(struct, name, notEmptyTest(name, struct[name]))

validateIsBoolean(struct, name) ==
    IF struct[name].t # "boolean"
    THEN validationError(Err("FieldNotBoolean", name, 0, <<>>))
    ELSE Ok

\* /[0-9]{4}-((0[1-9])|(1[0-2]))-((0[1-9])|([1-2][0-9])|(3[0-1]))/ at offset i.
DateAt(s, i) ==
    /\ \A j \in i..(i + 3) : s[j] \in Digits
    /\ s[i + 4] = "-"
    /\ \/ s[i + 5] = "0" /\ s[i + 6] \in Digits \ {"0"}
       \/ s[i + 5] = "1" /\ s[i + 6] \in {"0", "1", "2"}
    /\ s[i + 7] = "-"
    /\ \/ s[i + 8] = "0" /\ s[i + 9] \in Digits \ {"0"}
       \/ s[i + 8] \in {"1", "2"} /\ s[i + 9] \in Digits
       \/ s[i + 8] = "3" /\ s[i + 9] \in {"0", "1"}

\* The pattern is not anchored: it may match anywhere in the text.
DateMatch(s) == \E i \in 1..(Len(s) - 9) : DateAt(s, i)

\* field.match(...) exists on strings only: any other value throws.
isDateTest(name, field) ==
    IF field.t # "string" THEN Throw
    ELSE IF ~DateMatch(field.s)
         THEN validationError(Err("InvalidDate", name, 0, <<>>))
         ELSE Ok

validateIsDate(struct, name) ==
    validateContents(struct, name, isDateTest(name, struct[name]))

TitleIdLength == 16
TitlePatternCount == 16

\* /([a-zA-Z0-9]){16}/, not anchored.
TitleMatch(s) ==
    \E i \in 1..(Len(s) - TitlePatternCount + 1) :
        \A j \in i..(i + TitlePatternCount - 1) : s[j] \in Digits \cup Letters

\* releaseTitleTest with two separate if statements instead of else if.
releaseTitleTestBoth(field, i) ==
    Then(IF LengthOf(field) # TitleIdLength
         THEN validationError(Err("TitleIdLength", "title", i, <<>>))
         ELSE Ok,
         IF field.t # "string" THEN Throw
         ELSE IF ~TitleMatch(field.s)
              THEN validationError(Err("TitleIdPattern", "title", i, <<>>))
              ELSE Ok)

\* The test of a release's title: length first, pattern only in the else
\* branch.  field.match exists on strings only.
releaseTitleTest(field, i) ==
    IF LengthOf(field) # TitleIdLength
    THEN validationError(Err("TitleIdLength", "title", i, <<>>))
    ELSE IF field.t # "string" THEN Throw
         ELSE IF ~TitleMatch(field.s)
              THEN validationError(Err("TitleIdPattern", "title", i, <<>>))
              ELSE Ok

regionTest(regions, field, i) ==
    IF ~(field.t = "string" /\ field.s \in regions)
    THEN validationError(Err("InvalidRegion", "region", i, <<>>))
    ELSE Ok

VersionLength == 12
VersionPrefix == <<"H", "E", "A", "D", "-">>

versionTest(field, i) ==
    IF LengthOf(field) # VersionLength
    THEN validationError(Err("VersionLength", "version", i, <<>>))
    ELSE IF field.t # "string" THEN Throw
         ELSE IF ~startsWith(field.s, VersionPrefix)
              THEN validationError(Err("VersionSource", "version", i, <<>>))
              ELSE Ok

(***************************************************************************)
(* parseInt, as [nan, v].  Leading blanks, an optional sign, then decimal  *)
(* digits, or hexadecimal digits after a 0x prefix; what follows the       *)
(* digits is ignored, and no digit at all gives NaN.                       *)
(***************************************************************************)
NaN == [nan |-> TRUE, v |-> 0]

RECURSIVE skipBlanks(_)
skipBlanks(s) ==
    IF s # <<>> /\ Head(s) = " " THEN skipBlanks(Tail(s)) ELSE s

RECURSIVE digitsValue(_, _, _, _)
digitsValue(s, allowed, radix, acc) ==
    IF s # <<>> /\ Head(s) \in allowed
    THEN digitsValue(Tail(s), allowed, radix, acc * radix + DigitVal(Head(s)))
    ELSE acc

parseUnsigned(s) ==
    IF Len(s) >= 2 /\ s[1] = "0" /\ s[2] \in {"x", "X"}
    THEN LET rest == SubSeq(s, 3, Len(s))
         IN  IF rest # <<>> /\ rest[1] \in Digits \cup HexLetters
             THEN [nan |-> FALSE, v |-> digitsValue(rest, Digits \cup HexLetters, 16, 0)]
             ELSE NaN
    ELSE IF s # <<>> /\ s[1] \in Digits
         THEN [nan |-> FALSE, v |-> digitsValue(s, Digits, 10, 0)]
         ELSE NaN

parseIntText(text) ==
    LET s == skipBlanks(text)
    IN  IF s # <<>> /\ s[1] = "-"
        THEN LET u == parseUnsigned(Tail(s))
             IN  [nan |-> u.nan, v |-> 0 - u.v]
        ELSE IF s # <<>> /\ s[1] = "+" THEN parseUnsigned(Tail(s))
             ELSE parseUnsigned(s)

\* parseInt(value) converts the value to text first: a number prints its
\* integer part first, a boolean and a date print letters, an array prints
\* its elements joined by commas, so that only the first element counts.
RECURSIVE parseInt(_)
parseInt(v) ==
    CASE v.t = "string" -> parseIntText(v.s)
      [] v.t = "number" -> [nan |-> FALSE, v |-> v.n]
      [] v.t = "array" -> IF v.a = <<>> THEN NaN ELSE parseInt(v.a[1])
      [] OTHER -> NaN

(***************************************************************************)
(* validateTOML.  A metadata file is [exists, parses, title, description,  *)
(* github_issues, releases, testcases, needs_system_files,                 *)
(* needs_shared_font]; releases and testcases are values whose array       *)
(* elements are tables, kept in the field items.                           *)
(***************************************************************************)
\* githubLoop that leaves the loop at the first bad element.
githubLoopBreak(field, x) ==
    IF \E y \in x..Len(field.a) : field.a[y].t # "number"
    THEN validationError(Err("GithubEntryNotNumber", "github_issues",
                             CHOOSE y \in x..Len(field.a) :
                                 /\ field.a[y].t # "number"
                                 /\ \A z \in x..(y - 1) : field.a[z].t = "number",
                             <<>>))
    ELSE Ok

RECURSIVE githubLoop(_, _)
githubLoop(field, x) ==
    IF x > Len(field.a) THEN Ok
    ELSE Then(IF field.a[x].t # "number"
              THEN validationError(Err("GithubEntryNotNumber", "github_issues", x, <<>>))
              ELSE Ok,
              githubLoop(field, x + 1))

githubTest(field) ==
    IF field.t # "array"
    THEN validationError(Err("GithubNotArray", "github_issues", 0, <<>>))
    ELSE githubLoop(field, 1)

validateGithubIssues(tomlDoc) ==
    IF tomlDoc["github_issues"].t # "undefined"
    THEN validateContents(tomlDoc, "github_issues", githubTest(tomlDoc["github_issues"]))
    ELSE Ok

validateRelease(regions, release, i) ==
    Then(validateContents(release, "title", releaseTitleTest(release["title"], i)),
    Then(validateContents(release, "region", regionTest(regions, release["region"], i)),
         validateIsDate(release, "release_date")))

RECURSIVE releasesLoop(_, _, _)
releasesLoop(regions, section, i) ==
    IF i > Len(section) THEN Ok
    ELSE Then(validateRelease(regions, section[i], i),
              releasesLoop(regions, section, i + 1))

\* A section that is not an array has no length: the loop body never runs.
validateReleases(regions, tomlDoc) ==
    IF tomlDoc["releases"].t # "undefined"
    THEN IF tomlDoc["releases"].t = "array"
         THEN releasesLoop(regions, tomlDoc["releases"].items, 1)
         ELSE Ok
    ELSE validationError(Err("NoReleases", "releases", 0, <<>>))

InitialMaxCompatibility == 999
CompatibilityThreshold == 5

\* if (compat < maxCompatibility) maxCompatibility = compat; NaN compares false.
foldCompatibility(testcase, maxCompatibility) ==
    IF testcase["compatibility"].t # "undefined"
    THEN LET compat == parseInt(testcase["compatibility"])
         IN  IF ~compat.nan /\ compat.v < maxCompatibility
             THEN compat.v
             ELSE maxCompatibility
    ELSE maxCompatibility

validateTestcase(testcase, i) ==
    Then(validateNotEmpty(testcase, "compatibility"),
    Then(validateIsDate(testcase, "date"),
    Then(validateContents(testcase, "version", versionTest(testcase["version"], i)),
         validateNotEmpty(testcase, "author"))))

\* The loop over the test cases, as [r, max]: the result so far and the
\* running maxCompatibility.
RECURSIVE testcasesLoop(_, _, _, _)
testcasesLoop(section, i, r, maxCompatibility) ==
    IF i > Len(section) \/ r.raised
    THEN [r |-> r, max |-> maxCompatibility]
    ELSE testcasesLoop(section, i + 1,
                       Then(r, validateTestcase(section[i], i)),
                       foldCompatibility(section[i], maxCompatibility))

validateTestcases(tomlDoc) ==
    IF tomlDoc["testcases"].t # "undefined"
    THEN IF tomlDoc["testcases"].t = "array"
         THEN testcasesLoop(tomlDoc["testcases"].items, 1, Ok, InitialMaxCompatibility)
         ELSE [r |-> Ok, max |-> InitialMaxCompatibility]
    ELSE [r |-> validationError(Err("NoTestcases", "testcases", 0, <<>>)),
          max |-> InitialMaxCompatibility]

validateResourceFlags(tomlDoc, maxCompatibility) ==
    IF maxCompatibility < CompatibilityThreshold
    THEN Then(validateIsBoolean(tomlDoc, "needs_system_files"),
              validateIsBoolean(tomlDoc, "needs_shared_font"))
    ELSE Ok

\* The checks of a parsed document, in the order of the code.
checkFields(tomlDoc, regions) ==
    LET tc == validateTestcases(tomlDoc)
    IN  Then(validateNotEmpty(tomlDoc, "title"),
        Then(validateNotEmpty(tomlDoc, "description"),
        Then(validateGithubIssues(tomlDoc),
        Then(validateReleases(regions, tomlDoc),
        Then(tc.r,
             validateResourceFlags(tomlDoc, tc.max))))))

\* onParseError without its return: the field checks go on with the
\* undefined tomlDoc and throw at the first of them.
onParseErrorNoReturn(file) ==
    Then(validationError(Err("TomlParseError", "data", 0, <<>>)), Throw)

\* catch (e) { validationError("TOML parse error ..."); return; }
onParseError(file) == validationError(Err("TomlParseError", "data", 0, <<>>))

validateTOML(file, regions) ==
    IF ~file.exists
    THEN validationError(Err("TomlNotFound", "data", 0, <<>>))
    ELSE IF ~file.parses
         THEN onParseError(file)
         ELSE checkFields(file, regions)

(***************************************************************************)
(* Saves.  A file of the saves folder is [name, head, toml]: its name, its *)
(* first bytes (at most four) and what toml.parse makes of its text,       *)
(* [parses, title, description, author, title_id].                         *)
(***************************************************************************)
\* The test of a save's title_id: the same shape as a release's title.
saveTitleIdTest(field) ==
    IF LengthOf(field) # TitleIdLength
    THEN validationError(Err("SaveTitleIdLength", "title_id", 0, <<>>))
    ELSE IF field.t # "string" THEN Throw
         ELSE IF ~TitleMatch(field.s)
              THEN validationError(Err("SaveTitleIdPattern", "title_id", 0, <<>>))
              ELSE Ok

validateSaveTOML(tomlDoc) ==
    IF ~tomlDoc.parses
    THEN validationError(Err("TomlParseError", "save", 0, <<>>))
    ELSE Then(validateNotEmpty(tomlDoc, "title"),
         Then(validateNotEmpty(tomlDoc, "description"),
         Then(validateNotEmpty(tomlDoc, "author"),
              validateContents(tomlDoc, "title_id", saveTitleIdTest(tomlDoc["title_id"])))))

ZipHeader == <<80, 75, 3, 4>>

\* zipHeader.compare(data) !== 0: data is what the file has of its first 4 bytes.
validateSaveZip(file) ==
    IF ZipHeader # file.head
    THEN validationError(Err("NotAZip", "zip", 0, file.name))
    ELSE Ok

DatExt == <<".", "d", "a", "t">>
ZipExt == <<".", "z", "i", "p">>

existsSync(files, name) == \E k \in 1..Len(files) : files[k].name = name

fileNamed(files, name) ==
    files[CHOOSE k \in 1..Len(files) : files[k].name = name]

validateFileExists(files, name) ==
    IF ~existsSync(files, name)
    THEN Failed(Err("DoesNotExist", "saves", 0, name))
    ELSE Ok

\* file.substr(0, file.lastIndexOf("."))
stripExtension(name) == substr0(name, lastIndexOf(name, "."))

strippedFiles(files) == [k \in 1..Len(files) |-> stripExtension(files[k].name)]

\* Array.prototype.indexOf, 1-based here.
indexOf(seq, e) == CHOOSE k \in 1..Len(seq) : seq[k] = e /\ \A j \in 1..(k - 1) : seq[j] # e

\* strippedFiles.filter((element, i) => strippedFiles.indexOf(element) === i)
RECURSIVE firstOccurrences(_, _)
firstOccurrences(seq, i) ==
    IF i > Len(seq) THEN <<>>
    ELSE (IF indexOf(seq, seq[i]) = i THEN <<seq[i]>> ELSE <<>>)
         \o firstOccurrences(seq, i + 1)

saveGroups(files) == firstOccurrences(strippedFiles(files), 1)

validateGroup(files, group) ==
    LET dat == validateFileExists(files, group \o DatExt)
        zip == validateFileExists(files, group \o ZipExt)
    IN  Then(IF dat.ret
             THEN Then(dat, validateSaveTOML(fileNamed(files, group \o DatExt).toml))
             ELSE dat,
             IF zip.ret
             THEN Then(zip, validateSaveZip(fileNamed(files, group \o ZipExt)))
             ELSE zip)

RECURSIVE groupsLoop(_, _, _)
groupsLoop(files, groups, i) ==
    IF i > Len(groups) THEN Ok
    ELSE Then(validateGroup(files, groups[i]), groupsLoop(files, groups, i + 1))

\* dir is [exists, files].
validateSaves(dir) ==
    IF ~dir.exists THEN Ok
    ELSE groupsLoop(dir.files, saveGroups(dir.files), 1)

(***************************************************************************)
(* The run: the loop over the game folders and the final report.           *)
(*   pc = "boxart" .. "saves": the next validator of folder dirs[idx];     *)
(*   an index past the listing means the loop is over.                     *)
(***************************************************************************)
Reserved == {".git", "_validation"}

\* errors.push({game: currentGame, error: err}) for each message of r.
pushAll(list, game, r) ==
    list \o [k \in 1..Len(r.errs) |-> [game |-> game, error |-> r.errs[k]]]

\* nextPosition with the try/catch around the whole loop instead of inside
\* the callback: an exception ends the loop.
nextPositionAbort(raised, i, pcAfter) ==
    IF raised THEN [idx |-> Len(dirs) + 1, pc |-> "boxart"]
    ELSE IF pcAfter = "boxart" THEN [idx |-> i + 1, pc |-> "boxart"]
         ELSE [idx |-> i, pc |-> pcAfter]

\* Where control goes after a validator: the catch block ends the callback
\* of this folder only, and forEach goes on with the next one.
nextPosition(raised, i, pcAfter) ==
    IF raised THEN [idx |-> i + 1, pc |-> "boxart"]
    ELSE IF pcAfter = "boxart" THEN [idx |-> i + 1, pc |-> "boxart"]
         ELSE [idx |-> i, pc |-> pcAfter]

\* One validator call of the callback, under its try/catch.
Call(game, op, r, pcAfter) ==
    LET pos == nextPosition(r.raised, idx, pcAfter)
    IN  /\ errors' = pushAll(errors, game, r)
        /\ trace' = Append(trace, [game |-> game, op |-> op, errs |-> r.errs,
                                   raised |-> r.raised])
        /\ console' = IF r.raised
                      THEN Append(console, [level |-> "warn", text |-> game,
                                            error |-> NoError])
                      ELSE console
        /\ idx' = pos.idx
        /\ pc' = pos.pc

InLoop == exitCode = -1 /\ idx <= Len(dirs)

\* if (game === '.git' || game === '_validation') return;
SkipReserved ==
    /\ InLoop /\ pc = "boxart"
    /\ dirs[idx] \in Reserved
    /\ idx' = idx + 1
    /\ UNCHANGED <<config, dirs, tree, pc, currentGame, errors, console,
                   exitCode, trace>>

\* currentGame = game; validateImage(boxart)
ValidateBoxart ==
    /\ InLoop /\ pc = "boxart"
    /\ dirs[idx] \notin Reserved
    /\ currentGame' = dirs[idx]
    /\ Call(dirs[idx], "boxart",
            validateImage(tree[dirs[idx]].boxart, config.boxart, "boxart", 0), "icon")
    /\ UNCHANGED <<config, dirs, tree, exitCode>>

ValidateIcon ==
    /\ InLoop /\ pc = "icon"
    /\ Call(currentGame, "icon",
            validateImage(tree[dirs[idx]].icon, config.icon, "icon", 0), "data")
    /\ UNCHANGED <<config, dirs, tree, currentGame, exitCode>>

ValidateMetadata ==
    /\ InLoop /\ pc = "data"
    /\ Call(currentGame, "data",
            validateTOML(tree[dirs[idx]].data, config.regions), "screenshots")
    /\ UNCHANGED <<config, dirs, tree, currentGame, exitCode>>

ValidateScreenshots ==
    /\ InLoop /\ pc = "screenshots"
    /\ Call(currentGame, "screenshots",
            validateDirImages(tree[dirs[idx]].screenshots, config.screenshots), "saves")
    /\ UNCHANGED <<config, dirs, tree, currentGame, exitCode>>

ValidateSaves ==
    /\ InLoop /\ pc = "saves"
    /\ Call(currentGame, "saves", validateSaves(tree[dirs[idx]].saves), "boxart")
    /\ UNCHANGED <<config, dirs, tree, currentGame, exitCode>>

\* exitStatus with the comparison off by one.
exitStatusOffByOne(list) == IF Len(list) > 1 THEN 1 ELSE 0

\* if (errors.length > 0) ... process.exit(1) else ... process.exit(0)
exitStatus(list) == IF Len(list) > 0 THEN 1 ELSE 0

\* groupBy(errors, "game"): the games in order of first occurrence (the key
\* order of an object whose keys do not read as integers).
RECURSIVE groupKeys(_, _)
groupKeys(list, i) ==
    IF i > Len(list) THEN <<>>
    ELSE (IF \A j \in 1..(i - 1) : list[j].game # list[i].game
          THEN <<list[i].game>> ELSE <<>>)
         \o groupKeys(list, i + 1)

RECURSIVE groupLines(_, _, _)
groupLines(list, key, i) ==
    IF i > Len(list) THEN <<>>
    ELSE (IF list[i].game = key
          THEN <<[level |-> "info", text |-> "issue", error |-> list[i].error]>>
          ELSE <<>>)
         \o groupLines(list, key, i + 1)

RECURSIVE reportGroups(_, _, _)
reportGroups(list, keys, k) ==
    IF k > Len(keys) THEN <<>>
    ELSE <<[level |-> "info", text |-> keys[k], error |-> NoError]>>
         \o groupLines(list, keys[k], 1)
         \o reportGroups(list, keys, k + 1)

reportLines(list) ==
    IF Len(list) > 0
    THEN <<[level |-> "warn", text |-> "Validation completed with errors.",
            error |-> NoError]>>
         \o reportGroups(list, groupKeys(list, 1), 1)
    ELSE <<[level |-> "info", text |-> "Validation completed without errors.",
            error |-> NoError]>>

Report ==
    /\ exitCode = -1 /\ idx > Len(dirs)
    /\ exitCode' = exitStatus(errors)
    /\ console' = console \o reportLines(errors)
    /\ UNCHANGED <<config, dirs, tree, idx, pc, currentGame, errors, trace>>

Next ==
    \/ SkipReserved
    \/ ValidateBoxart
    \/ ValidateIcon
    \/ ValidateMetadata
    \/ ValidateScreenshots
    \/ ValidateSaves
    \/ Report

(***************************************************************************)
(* Inputs.  config.json and the game folders are data, not code: the       *)
(* values below are samples of what they can hold.                         *)
(***************************************************************************)
Png == "image/png"
Jpeg == "image/jpeg"

Usa == <<"U", "S", "A">>
Eur == <<"E", "U", "R">>

DefaultConfig ==
    [boxart |-> [type |-> Png, width |-> 3, height |-> 4],
     icon |-> [type |-> Png, width |-> 1, height |-> 1],
     screenshots |-> [type |-> Png, width |-> 4, height |-> 2],
     regions |-> {Usa, Eur}]

Image(mime, sized, w, h) ==
    [exists |-> TRUE, mime |-> mime, sized |-> sized, width |-> w, height |-> h]

NoImage == [exists |-> FALSE, mime |-> NoType, sized |-> FALSE, width |-> 0, height |-> 0]

GoodImage(cfg) == Image(cfg.type, TRUE, cfg.width, cfg.height)

\* Every file an image path can name, against the constraint cfg.
ImageFiles(cfg) ==
    {NoImage}
    \cup {Image(m, TRUE, w, h) : m \in {Png, Jpeg, NoType},
                                 w \in {cfg.width, cfg.width + 1},
                                 h \in {cfg.height, cfg.height + 1}}
    \cup {Image(m, FALSE, 0, 0) : m \in {Png, Jpeg, NoType}}

NoDir == [exists |-> FALSE, files |-> <<>>]

Dir(files) == [exists |-> TRUE, files |-> files]

SeqsUpTo(S, n) == UNION {[1..k -> S] : k \in 0..n}

Text == <<"o", "k">>
ValidTitleId == Rep("0", 12) \o <<"a", "B", "c", "9">>
ShortId == <<"s", "h", "o", "r", "t">>
DashedId == Rep("0", 15) \o <<"-">>
ShortDashedId == <<"a", "-", "b">>
ValidDate == <<"2", "0", "1", "7", "-", "0", "3", "-", "2", "1">>
ValidVersion == VersionPrefix \o <<"1", "2", "3", "a", "b", "c", "d">>

Table(t, items) == [t |-> t, items |-> items]

Release(title, region, date) ==
    [title |-> title, region |-> region, release_date |-> date]

Testcase(compat, date, version, author) ==
    [compatibility |-> compat, date |-> date, version |-> version, author |-> author]

GoodRelease == Release(Str(ValidTitleId), Str(Usa), Str(ValidDate))

GoodTestcase(compat) == Testcase(compat, Str(ValidDate), Str(ValidVersion), Str(Text))

Doc(title, github, releases, testcases, sys, font) ==
    [exists |-> TRUE, parses |-> TRUE, title |-> title, description |-> Str(Text),
     github_issues |-> github, releases |-> releases, testcases |-> testcases,
     needs_system_files |-> sys, needs_shared_font |-> font]

GoodDoc ==
    Doc(Str(Text), Undefined, Table("array", <<GoodRelease>>),
        Table("array", <<GoodTestcase(Str(<<"5">>))>>), Undefined, Undefined)

\* A file the parser rejects has no fields at all.
BrokenDoc ==
    [exists |-> TRUE, parses |-> FALSE, title |-> Undefined, description |-> Undefined,
     github_issues |-> Undefined, releases |-> Table("undefined", <<>>),
     testcases |-> Table("undefined", <<>>),
     needs_system_files |-> Undefined, needs_shared_font |-> Undefined]

NoDoc == [BrokenDoc EXCEPT !.exists = FALSE]

Game(boxart, icon, data, screenshots, saves) ==
    [boxart |-> boxart, icon |-> icon, data |-> data,
     screenshots |-> screenshots, saves |-> saves]

GoodGame ==
    Game(GoodImage(DefaultConfig.boxart), GoodImage(DefaultConfig.icon), GoodDoc,
         NoDir, NoDir)

SaveDoc(parses, title, titleId) ==
    [parses |-> parses, title |-> title, description |-> Str(Text),
     author |-> Str(Text), title_id |-> titleId]

GoodSaveDoc == SaveDoc(TRUE, Str(Text), Str(ValidTitleId))

SaveFile(name, head, toml) == [name |-> name, head |-> head, toml |-> toml]

InitCommon ==
    /\ idx = 1
    /\ pc = "boxart"
    /\ currentGame = "null"
    /\ errors = <<>>
    /\ console = <<>>
    /\ exitCode = -1
    /\ trace = <<>>

(***************************************************************************)
(* Spec: whole runs over listings of sample folders, in any order (the     *)
(* order of readdirSync is the file system's).                             *)
(***************************************************************************)
ArtGame ==
    Game(Image(Jpeg, TRUE, DefaultConfig.boxart.width + 1, DefaultConfig.boxart.height),
         NoImage, BrokenDoc,
         Dir(<<Image(Png, TRUE, DefaultConfig.screenshots.width,
                     DefaultConfig.screenshots.height + 1)>>),
         Dir(<<SaveFile(<<"s", "1">> \o ZipExt, ZipHeader, GoodSaveDoc)>>))

\* The icon has the wrong size, the title is missing and the release date
\* is a TOML date, which toml.parse decodes to a Date object.
TypedGame ==
    Game(GoodImage(DefaultConfig.boxart),
         Image(Png, TRUE, DefaultConfig.icon.width + 1, DefaultConfig.icon.height),
         Doc(Undefined, Undefined,
             Table("array", <<Release(Str(ValidTitleId), Str(Usa), DateObj)>>),
             Table("array", <<GoodTestcase(Str(<<"1">>))>>), Undefined, Undefined),
         NoDir, NoDir)

\* The box art is a file whose leading bytes are those of no image format.
RawGame ==
    Game(Image(NoType, TRUE, DefaultConfig.boxart.width, DefaultConfig.boxart.height),
         GoodImage(DefaultConfig.icon), GoodDoc, NoDir, NoDir)

\* The second screenshot has a header that sizeOf cannot decode.
ShotsGame ==
    Game(GoodImage(DefaultConfig.boxart), GoodImage(DefaultConfig.icon), NoDoc,
         Dir(<<GoodImage(DefaultConfig.screenshots), Image(Png, FALSE, 0, 0)>>),
         Dir(<<SaveFile(<<"s", "1">> \o ZipExt, <<80, 75>>, GoodSaveDoc)>>))

Folders ==
    [name \in {".git", "_validation", "clean", "art", "typed", "raw", "shots"} |->
        CASE name = "art" -> ArtGame
          [] name = "typed" -> TypedGame
          [] name = "raw" -> RawGame
          [] name = "shots" -> ShotsGame
          [] OTHER -> GoodGame]

\* Directory listings: names do not repeat.
Listings(names, n) ==
    {l \in SeqsUpTo(names, n) : \A i, j \in 1..Len(l) : i # j => l[i] # l[j]}

Init ==
    /\ InitCommon
    /\ config = DefaultConfig
    /\ tree = Folders
    /\ dirs \in Listings(DOMAIN Folders, MaxDirs)

Spec == Init /\ [][Next]_vars

(***************************************************************************)
(* SpecImage: one game whose box art is any file and whose screenshots are *)
(* any short list of files, under either expected type.                    *)
(***************************************************************************)
OneGame(game) == [name \in {".git", "game"} |-> game]

ImageConfigs ==
    {[DefaultConfig EXCEPT !.boxart.type = t, !.screenshots.type = t] : t \in {Png, Jpeg}}

ShotFiles(cfg) ==
    {GoodImage(cfg), Image(Jpeg, TRUE, cfg.width, cfg.height + 1),
     Image(NoType, TRUE, cfg.width + 1, cfg.height), Image(Png, FALSE, 0, 0)}

InitImage ==
    /\ InitCommon
    /\ dirs = <<".git", "game">>
    /\ config \in ImageConfigs
    /\ \E boxart \in ImageFiles(config.boxart),
          shots \in {NoDir} \cup {Dir(f) : f \in SeqsUpTo(ShotFiles(config.screenshots), MaxShots)} :
            tree = OneGame(Game(boxart, GoodImage(config.icon), GoodDoc, shots, NoDir))

SpecImage == InitImage /\ [][Next]_vars

(***************************************************************************)
(* SpecTOML: one game whose metadata file is any document of DocSet: the   *)
(* sections are varied one at a time around a valid document.              *)
(***************************************************************************)
GithubValues ==
    {Undefined, Num(7), Str(Text)}
    \cup {Arr(a) : a \in SeqsUpTo({Num(1), Float(1), Str(<<"x">>)}, MaxIssues)}

TitleValues == {Str(Text), Undefined, Str(<<>>), Num(3)}

GithubDocs ==
    {Doc(title, github, GoodDoc.releases, GoodDoc.testcases, Undefined, Undefined) :
        title \in TitleValues, github \in GithubValues}

ReleaseTitles ==
    {Str(ValidTitleId), Str(ShortId), Str(DashedId), Str(ShortDashedId), Undefined,
     Arr(Rep(Num(1), TitleIdLength))}

ReleaseSet ==
    {Release(title, region, date) :
        title \in ReleaseTitles,
        region \in {Str(Usa), Str(<<"Z", "Z">>)},
        date \in {Str(ValidDate), DateObj}}

ReleaseDocs ==
    {Doc(Str(Text), Undefined, releases, GoodDoc.testcases, Undefined, Undefined) :
        releases \in {Table("undefined", <<>>), Table("number", <<>>)}
                     \cup {Table("array", l) : l \in SeqsUpTo(ReleaseSet, MaxReleases)}}

CompatValues ==
    {Str(<<"3">>), Str(<<"5">>), Str(<<"1", "2">>), Str(<<"a", "b", "c">>), Undefined}

TestcaseSet ==
    {GoodTestcase(compat) : compat \in CompatValues}
    \cup {Testcase(compat, DateObj, Str(ValidVersion), Str(Text)) : compat \in CompatValues}

FlagValues == {Undefined, Bool(TRUE), Str(<<"t", "r", "u", "e">>)}

TestcaseDocs ==
    {Doc(Str(Text), Undefined, GoodDoc.releases, testcases, sys, font) :
        testcases \in {Table("undefined", <<>>), Table("number", <<>>)}
                      \cup {Table("array", l) : l \in SeqsUpTo(TestcaseSet, MaxTestcases)},
        sys \in FlagValues, font \in FlagValues}

DateTexts ==
    {ValidDate,
     <<"x">> \o ValidDate \o <<"y">>,
     <<"2", "0", "1", "7", "-", "1", "3", "-", "0", "1">>,
     <<"2", "0", "1", "7", "-", "0", "0", "-", "1", "0">>,
     <<"2", "0", "1", "7", "-", "0", "2", "-", "3", "2">>,
     <<"2", "0", "1", "7", "-", "0", "2", "-", "3", "0">>,
     <<"2", "0", "1", "7", "-", "2", "-", "3">>,
     <<>>}

OddCompatValues ==
    {Str(<<" ", "4">>), Str(<<"0", "x", "3">>), Str(<<"-", "1">>), Str(<<"4", "a">>),
     Str(<<>>), Str(<<"1", "0", "0", "0">>), Num(2), Float(4), Bool(TRUE),
     Arr(<<Str(<<"2">>)>>)}

VersionValues ==
    {Str(ValidVersion), Str(VersionPrefix), Str(Rep("a", VersionLength)), Num(1),
     Undefined, Arr(Rep(Num(1), VersionLength))}

DetailDocs ==
    {Doc(Str(Text), Undefined,
         Table("array", <<Release(Str(ValidTitleId), Str(Eur), Str(d))>>),
         GoodDoc.testcases, Undefined, Undefined) : d \in DateTexts}
    \cup {Doc(Str(Text), Undefined, GoodDoc.releases,
              Table("array", <<Testcase(compat, Str(ValidDate), version, author)>>),
              Undefined, Bool(FALSE)) :
            compat \in OddCompatValues \cup {Str(<<"5">>)},
            version \in VersionValues,
            author \in {Str(Text), Str(<<>>), Undefined}}

DocSet == GithubDocs \cup ReleaseDocs \cup TestcaseDocs \cup DetailDocs \cup {BrokenDoc, NoDoc}

InitTOML ==
    /\ InitCommon
    /\ dirs = <<".git", "game">>
    /\ config = DefaultConfig
    /\ \E doc \in DocSet : tree = OneGame([GoodGame EXCEPT !.data = doc])

SpecTOML == InitTOML /\ [][Next]_vars

(***************************************************************************)
(* SpecSaves: one game whose saves folder lists any few of a handful of    *)
(* files, in any order.                                                    *)
(***************************************************************************)
SaveDocs ==
    {GoodSaveDoc,
     SaveDoc(FALSE, Undefined, Undefined),
     SaveDoc(TRUE, Undefined, Str(ShortId)),
     SaveDoc(TRUE, Str(Text), Arr(Rep(Num(1), TitleIdLength)))}

ZipHeads == {ZipHeader, <<80, 75>>, <<80, 75, 5, 6>>}

SaveFiles ==
    {SaveFile(<<"s", "1">> \o DatExt, <<>>, d) : d \in SaveDocs}
    \cup {SaveFile(<<"s", "1">> \o ZipExt, h, GoodSaveDoc) : h \in ZipHeads}
    \cup {SaveFile(<<"s", "2">> \o ZipExt, h, GoodSaveDoc) : h \in ZipHeads}
    \cup {SaveFile(<<"s", ".", "2">> \o DatExt, <<>>, d) : d \in SaveDocs}
    \cup {SaveFile(<<"n", "o", "t", "e">>, <<>>, SaveDoc(FALSE, Undefined, Undefined))}

SaveDirs ==
    {NoDir}
    \cup {Dir(l) : l \in {f \in SeqsUpTo(SaveFiles, MaxSaveFiles) :
                            \A i, j \in 1..Len(f) : i # j => f[i].name # f[j].name}}

InitSaves ==
    /\ InitCommon
    /\ dirs = <<".git", "game">>
    /\ config = DefaultConfig
    /\ \E saves \in SaveDirs : tree = OneGame([GoodGame EXCEPT !.saves = saves])

SpecSaves == InitSaves /\ [][Next]_vars

(***************************************************************************)
(* Vocabulary of the properties.                                           *)
(***************************************************************************)
Finished == exitCode # -1

HasKind(errs, kind) == \E k \in 1..Len(errs) : errs[k].kind = kind

\* The calls made for a game, and the messages the error list holds for it.
CallsOf(game) == SelectSeq(trace, LAMBDA c : c.game = game)

RECURSIVE Flatten(_)
Flatten(calls) ==
    IF calls = <<>> THEN <<>> ELSE Head(calls).errs \o Flatten(Tail(calls))

ErrorsOf(game) ==
    LET mine == SelectSeq(errors, LAMBDA e : e.game = game)
    IN  [k \in 1..Len(mine) |-> mine[k].error]

Threw(game) == \E k \in 1..Len(trace) : trace[k].game = game /\ trace[k].raised

\* The callback of a folder ran to its end: its last call is the saves
\* validator or the one that threw.
Validated(game) ==
    LET calls == CallsOf(game)
    IN  /\ calls # <<>>
        /\ calls[1].op = "boxart"
        /\ calls[Len(calls)].op = "saves" \/ calls[Len(calls)].raised

\* The warnings the catch block logged for a game.
Warnings(game) ==
    Cardinality({j \in 1..Len(console) :
                    console[j].level = "warn" /\ console[j].text = game})

SuccessPrinted ==
    \E k \in 1..Len(console) : console[k].text = "Validation completed without errors."

(***************************************************************************)
(* C1.  After the whole run the process exits with status 0 and prints the *)
(* success message if and only if the error list is empty, and exits with  *)
(* status 1 if and only if some validator call recorded an error.          *)
(***************************************************************************)
C1_ExitStatusMatchesErrors ==
    /\ SuccessPrinted => Finished
    /\ Finished =>
        /\ exitCode \in {0, 1}
        /\ exitCode = 0 <=> errors = <<>>
        /\ SuccessPrinted <=> errors = <<>>
        /\ exitCode = 1 <=> \E k \in 1..Len(trace) : trace[k].errs # <<>>

\* A run that ends with status 1 although one of its games threw, and a
\* folder of it recorded nothing.
C1_Witness ==
    /\ exitCode = 1
    /\ Len(errors) > 0
    /\ \E k \in 1..Len(trace) : trace[k].raised
    /\ \E k \in 1..Len(trace) : ErrorsOf(trace[k].game) = <<>>

(***************************************************************************)
(* C2.  An exception while validating game G does not abort the run: every *)
(* non-reserved folder after G in the listing is validated, the errors     *)
(* recorded for G before the exception stay in the error list, and only    *)
(* the remaining checks of G are abandoned.                                *)
(***************************************************************************)
C2_ExceptionIsPerGame ==
    /\ \A k \in 1..Len(trace) :
          trace[k].raised =>
              /\ \A j \in (k + 1)..Len(trace) : trace[j].game # trace[k].game
              /\ ErrorsOf(trace[k].game) = Flatten(CallsOf(trace[k].game))
              /\ Warnings(trace[k].game) = 1
    /\ \A q \in 1..Len(dirs) :
          (dirs[q] \notin Reserved /\ (q < idx \/ Finished)) => Validated(dirs[q])
    /\ \A q \in 1..Len(dirs) :
          (dirs[q] \notin Reserved /\ Validated(dirs[q]) /\ ~Threw(dirs[q])) =>
              Len(CallsOf(dirs[q])) = 5

\* A finished run in which a game threw after recording errors and a later
\* folder was validated in full and recorded errors of its own.
C2_Witness ==
    /\ Finished
    /\ \E p, q \in 1..Len(dirs) :
          /\ p < q
          /\ Threw(dirs[p])
          /\ ErrorsOf(dirs[p]) # <<>>
          /\ dirs[q] \notin Reserved
          /\ ~Threw(dirs[q])
          /\ Len(CallsOf(dirs[q])) = 5
          /\ ErrorsOf(dirs[q]) # <<>>

(***************************************************************************)
(* C3.  validateImage on an existing file whose leading bytes are those of *)
(* no image format records a format mismatch and does not throw: the       *)
(* dimension check of the file and the next validator of the game run.     *)
(***************************************************************************)
C3_UnclassifiableIsMismatch ==
    \A k \in 1..Len(trace) :
        LET file == tree[trace[k].game].boxart
        IN  (trace[k].op = "boxart" /\ file.exists /\ file.mime = NoType) =>
                /\ ~trace[k].raised
                /\ HasKind(trace[k].errs, "ImageFormat")
                /\ (file.sized /\ file.width # config.boxart.width) =>
                       HasKind(trace[k].errs, "ImageDimensions")
                /\ Len(trace) > k => trace[k + 1].op = "icon"

(***************************************************************************)
(* C6.  For every image file that exists the format check and the          *)
(* dimension check are evaluated independently: wrong format and wrong     *)
(* dimensions give exactly two errors, one fault exactly one, none none.   *)
(***************************************************************************)
FormatFault(file, cfg) == file.mime # cfg.type

DimensionFault(file, cfg) == file.width # cfg.width \/ file.height # cfg.height

Faults(file, cfg) ==
    (IF FormatFault(file, cfg) THEN 1 ELSE 0) + (IF DimensionFault(file, cfg) THEN 1 ELSE 0)

C6_ChecksAreIndependent ==
    \A k \in 1..Len(trace) :
        LET file == tree[trace[k].game].boxart
        IN  (trace[k].op = "boxart" /\ file.exists /\ file.sized) =>
                /\ Len(trace[k].errs) = Faults(file, config.boxart)
                /\ FormatFault(file, config.boxart)
                       <=> HasKind(trace[k].errs, "ImageFormat")
                /\ DimensionFault(file, config.boxart)
                       <=> HasKind(trace[k].errs, "ImageDimensions")

\* The same statement for the files imageType can classify.
C6_ClassifiedChecksAreIndependent ==
    \A k \in 1..Len(trace) :
        LET file == tree[trace[k].game].boxart
        IN  (trace[k].op = "boxart" /\ file.exists /\ file.sized /\ file.mime # NoType) =>
                /\ Len(trace[k].errs) = Faults(file, config.boxart)
                /\ ~trace[k].raised

(***************************************************************************)
(* Vocabulary of the metadata properties.                                  *)
(***************************************************************************)
IsDataCall(k) == trace[k].op = "data"

DocOf(k) == tree[trace[k].game].data

Parsed(k) == IsDataCall(k) /\ DocOf(k).exists /\ DocOf(k).parses

ItemsOf(section) == IF section.t = "array" THEN section.items ELSE <<>>

CountKind(errs, kind) == Cardinality({j \in 1..Len(errs) : errs[j].kind = kind})

CountAt(errs, kind, i) ==
    Cardinality({j \in 1..Len(errs) : errs[j].kind = kind /\ errs[j].idx = i})

CountField(errs, kind, name) ==
    Cardinality({j \in 1..Len(errs) : errs[j].kind = kind /\ errs[j].name = name})

IsText(v) == v.t = "string"

HasNonAlnum(v) == \E j \in 1..Len(v.s) : v.s[j] \notin Digits \cup Letters

(***************************************************************************)
(* C4.  Every expected violation in a parseable document, a field of the   *)
(* wrong type included, becomes a recorded error: validateTOML never       *)
(* throws for it and the screenshot validator runs afterwards.             *)
(***************************************************************************)
C4_WrongTypeIsRecorded ==
    \A k \in 1..Len(trace) :
        Parsed(k) =>
            /\ ~trace[k].raised
            /\ Len(trace) > k => trace[k + 1].op = "screenshots"
            /\ (\E r \in 1..Len(ItemsOf(DocOf(k).releases)) :
                   ItemsOf(DocOf(k).releases)[r].release_date.t \notin {"string", "undefined"})
               => HasKind(trace[k].errs, "InvalidDate")

(***************************************************************************)
(* C5.  With m the minimum of the parsed compatibility values of all test  *)
(* cases: if m < 5 one error is recorded for each of needs_system_files    *)
(* and needs_shared_font that is not a literal boolean; if m >= 5, or      *)
(* there are no test cases, none is recorded for these two fields.         *)
(***************************************************************************)
ParsedCompatibilities(doc) ==
    {parseInt(tc.compatibility).v :
        tc \in {t \in {ItemsOf(doc.testcases)[i] : i \in 1..Len(ItemsOf(doc.testcases))} :
                  /\ t.compatibility.t # "undefined"
                  /\ ~parseInt(t.compatibility).nan}}

FlagErrors(errs, name) == CountField(errs, "FieldNotBoolean", name)

ExpectedFlagErrors(doc, name) == IF doc[name].t = "boolean" THEN 0 ELSE 1

C5_FlagsFollowMinimum ==
    \A k \in 1..Len(trace) :
        Parsed(k) =>
            LET values == ParsedCompatibilities(DocOf(k))
                errs == trace[k].errs
            IN  /\ (\E v \in values : v < CompatibilityThreshold) =>
                       /\ FlagErrors(errs, "needs_system_files")
                              = ExpectedFlagErrors(DocOf(k), "needs_system_files")
                       /\ FlagErrors(errs, "needs_shared_font")
                              = ExpectedFlagErrors(DocOf(k), "needs_shared_font")
                /\ (\A v \in values : v >= CompatibilityThreshold) =>
                       CountKind(errs, "FieldNotBoolean") = 0

\* The same statement for the documents on which validateTOML returns.
C5_FlagsFollowMinimumOnReturn ==
    \A k \in 1..Len(trace) :
        (Parsed(k) /\ ~trace[k].raised) =>
            LET values == ParsedCompatibilities(DocOf(k))
                errs == trace[k].errs
            IN  /\ (\E v \in values : v < CompatibilityThreshold) =>
                       /\ FlagErrors(errs, "needs_system_files")
                              = ExpectedFlagErrors(DocOf(k), "needs_system_files")
                       /\ FlagErrors(errs, "needs_shared_font")
                              = ExpectedFlagErrors(DocOf(k), "needs_shared_font")
                /\ (\A v \in values : v >= CompatibilityThreshold) =>
                       CountKind(errs, "FieldNotBoolean") = 0

(***************************************************************************)
(* C7.  When the metadata document fails to parse, exactly one parse error *)
(* is recorded for it and no field-level error; validateTOML returns and   *)
(* the next validator of the game, the screenshots', runs.                 *)
(***************************************************************************)
C7_ParseFailureIsOneError ==
    \A k \in 1..Len(trace) :
        (IsDataCall(k) /\ DocOf(k).exists /\ ~DocOf(k).parses) =>
            /\ Len(trace[k].errs) = 1
            /\ trace[k].errs[1].kind = "TomlParseError"
            /\ ~trace[k].raised
            /\ Cardinality({j \in 1..Len(errors) :
                                /\ errors[j].game = trace[k].game
                                /\ errors[j].error.kind = "TomlParseError"
                                /\ errors[j].error.name = "data"}) = 1
            /\ IF k = Len(trace)
               THEN pc = "screenshots" /\ dirs[idx] = trace[k].game
               ELSE trace[k + 1].op = "screenshots" /\ trace[k + 1].game = trace[k].game

\* After the parse failure the screenshot and save validators both ran and
\* recorded errors of their own.
C7_Witness ==
    \E k \in 1..Len(trace) :
        /\ IsDataCall(k) /\ DocOf(k).exists /\ ~DocOf(k).parses
        /\ Len(trace) >= k + 2
        /\ trace[k + 1].op = "screenshots" /\ trace[k + 1].errs # <<>>
        /\ trace[k + 2].op = "saves" /\ trace[k + 2].errs # <<>>

(***************************************************************************)
(* C9.  As claimed: the length check and the pattern check of a release's  *)
(* identifier both fire on an identifier that is of the wrong length and   *)
(* also holds a character that is not alphanumeric.                        *)
(***************************************************************************)
WrongLengthAndPattern(v) == IsText(v) /\ Len(v.s) # TitleIdLength /\ HasNonAlnum(v)

IsInteger(v) == v.t = "number" /\ ~v.frac

GithubErrors(errs) ==
    CountKind(errs, "GithubNotArray") + CountKind(errs, "GithubEntryNotNumber")

IsSavesCall(k) == trace[k].op = "saves" /\ tree[trace[k].game].saves.exists

FilesOf(k) == tree[trace[k].game].saves.files

GroupSet(files) == {stripExtension(files[i].name) : i \in 1..Len(files)}

MissingErrors(errs, name) ==
    Cardinality({j \in 1..Len(errs) : errs[j].kind = "DoesNotExist" /\ errs[j].path = name})

\* What one group is due: one error for a missing file, else the errors of
\* the check of the file that is there.
GroupDue(files, group) ==
    (IF existsSync(files, group \o DatExt)
     THEN Len(validateSaveTOML(fileNamed(files, group \o DatExt).toml).errs)
     ELSE 1)
    + (IF existsSync(files, group \o ZipExt)
       THEN Len(validateSaveZip(fileNamed(files, group \o ZipExt)).errs)
       ELSE 1)

RECURSIVE SumDue(_, _)
SumDue(files, groups) ==
    IF groups = {} THEN 0
    ELSE LET g == CHOOSE x \in groups : TRUE
         IN  GroupDue(files, g) + SumDue(files, groups \ {g})

C8_GroupsAndCounterparts ==
    \A k \in 1..Len(trace) :
        IsSavesCall(k) =>
            LET files == FilesOf(k)
                errs == trace[k].errs
            IN  /\ Len(saveGroups(files)) = Cardinality(GroupSet(files))
                /\ \A g \in GroupSet(files) :
                      /\ MissingErrors(errs, g \o DatExt)
                            = IF existsSync(files, g \o DatExt) THEN 0 ELSE 1
                      /\ MissingErrors(errs, g \o ZipExt)
                            = IF existsSync(files, g \o ZipExt) THEN 0 ELSE 1
                /\ Len(errs) = SumDue(files, GroupSet(files))
                /\ (Len(files) = 1 /\ files[1].name = <<"s", "1">> \o ZipExt
                      /\ files[1].head = ZipHeader) =>
                       /\ Len(errs) = 1
                       /\ errs[1].kind = "DoesNotExist"
                       /\ errs[1].path = <<"s", "1">> \o DatExt

\* The same statement for the folders on which validateSaves returns.
C8_GroupsAndCounterpartsOnReturn ==
    \A k \in 1..Len(trace) :
        (IsSavesCall(k) /\ ~trace[k].raised) =>
            LET files == FilesOf(k)
                errs == trace[k].errs
            IN  /\ Len(saveGroups(files)) = Cardinality(GroupSet(files))
                /\ \A g \in GroupSet(files) :
                      /\ MissingErrors(errs, g \o DatExt)
                            = IF existsSync(files, g \o DatExt) THEN 0 ELSE 1
                      /\ MissingErrors(errs, g \o ZipExt)
                            = IF existsSync(files, g \o ZipExt) THEN 0 ELSE 1
                /\ Len(errs) = SumDue(files, GroupSet(files))

====
